---- MODULE Spec2Model ----
(***************************************************************************)
(* Node power control plugins: ipmi_action (bm_control_plugin.py) and      *)
(* aws_action (aws_control_plugin.py).  One behaviour is one call of the   *)
(* step function; every backend call is a step whose outcome (a state, an  *)
(* exception) and duration are chosen by the environment.                  *)
(*                                                                         *)
(* Time is counted in ticks of half a second (the poll sleep).             *)
(***************************************************************************)
EXTENDS Integers, Sequences, FiniteSets, TLC

\* ------------------------------------------------------------------ bounds
MaxTimeout == 2          \* largest wait_timeout tried, in seconds
MaxCallTicks == 1        \* longest a single backend call may take, in ticks
MaxWaiterTicks == 3      \* longest a blocking EC2 waiter may take, in ticks
MaxStartClock == 1       \* latest clock reading at which the call begins, in ticks

\* --------------------------------------------------------------- constants
TicksPerSecond == 2
SleepTicks == 1          \* time.sleep(0.5)
MsPerTick == 500
WaitForPowerStateArity == 3   \* def wait_for_power_state(connection, desired_power_state_on, timeout)
PhaseOneCallArgs == 2         \* wait_for_power_state(conn, False)

NoTimeout == -1               \* a waiter called without a timeout: wait_until_terminated()

MaxClock == MaxStartClock + (MaxTimeout * TicksPerSecond) + (8 * MaxCallTicks) + (4 * SleepTicks)

\* ----------------------------------------------------------- Python values
\* A NodeAction member and its .value are objects of different types.
Member(name) == [type |-> "NodeAction", value |-> name]
Value(m) == [type |-> "str", value |-> m.value]

\* Python ==.  NodeAction is decorated with @dataclass and has no fields, so
\* the generated __eq__ holds between any two members; a member and a str
\* are never equal; two strs are equal when their text is.
PyEq(x, y) ==
    IF x.type = "NodeAction" /\ y.type = "NodeAction" THEN TRUE
    ELSE IF x.type = "str" /\ y.type = "str" THEN x.value = y.value
    ELSE FALSE

IpmiNodeAction ==
    { Member(n) : n \in {"stop", "start", "reboot", "hard_reset",
                         "diagnostic_interrupt", "soft_stop"} }

AwsNodeAction ==
    { Member(n) : n \in {"stop", "force_stop", "start", "reboot", "terminate"} }

\* A member of the other plugin's NodeAction class, whose value this plugin's
\* enum does not have: the step function is an ordinary function and takes
\* whatever object it is called with.
OtherMember(name) == [type |-> "OtherNodeAction", value |-> name]

IpmiUnknownAction == OtherMember("terminate")
AwsUnknownAction == OtherMember("hard_reset")

\* the keys of the dict
nodeActionEnumToIntKeys ==
    {"stop", "start", "reboot", "hard_reset", "diagnostic_interrupt", "soft_stop"}

nodeActionEnumToInt(v) ==
    CASE v = "stop" -> 0
      [] v = "start" -> 1
      [] v = "reboot" -> 2
      [] v = "hard_reset" -> 3
      [] v = "diagnostic_interrupt" -> 4
      [] v = "soft_stop" -> 5

\* ------------------------------------------------------------------- state
VARIABLES
    backend,                    \* which plugin is called: "ipmi" or "aws"
    action, wait, wait_timeout, \* params
    credentials,                \* params.user and params.password are not None
    pc,                         \* position in the step function
    now,                        \* time.time()
    start_time,
    original_assigned, original_power_state_on,
    intended_assigned, intended_final_power_state,
    desired_power_state_on, timeout_time,   \* locals of wait_for_power_state
    final_power_state_on,
    final_state_name,           \* resource.state['Name'] after reload()
    output_id, output,          \* the returned tuple
    raised,                     \* exception that left the function, "" if none
    issued,                     \* backend commands issued, in order
    hist                        \* what was observed and done, for the properties

vars == << backend, action, wait, wait_timeout, credentials, pc, now,
           start_time, original_assigned, original_power_state_on,
           intended_assigned, intended_final_power_state,
           desired_power_state_on, timeout_time, final_power_state_on,
           final_state_name, output_id, output, raised, issued, hist >>

params == << backend, action, wait, wait_timeout, credentials >>
locals == << original_assigned, original_power_state_on, intended_assigned,
             intended_final_power_state, desired_power_state_on, timeout_time,
             final_power_state_on, final_state_name >>
outcome == << output_id, output, raised >>

NoOutput == [kind |-> "none", ms_duration |-> 0,
             final_power_state_on |-> FALSE, error |-> << >>]

SuccessOutput(ms, on) == [kind |-> "SuccessOutput", ms_duration |-> ms,
                          final_power_state_on |-> on, error |-> << >>]

\* error is the message, as the sequence of the strings it is concatenated from
ErrorOutput(msg) == [kind |-> "ErrorOutput", ms_duration |-> 0,
                     final_power_state_on |-> FALSE, error |-> msg]

NoHist == [pre_queries |-> 0, post_queries |-> 0, polls |-> 0, sleeps |-> 0,
           slept |-> 0, seen_on |-> FALSE, seen_off |-> FALSE,
           on_wait_started |-> FALSE, off_wait_started |-> FALSE,
           wait_end |-> "none", failed_at |-> "none",
           pre_state |-> "none", last_poll |-> "none", final_obs |-> "none",
           exc |-> "none", off_before_on_wait |-> FALSE,
           waiter_timeout |-> NoTimeout, waited |-> 0, began |-> 0]

Init ==
    /\ backend \in {"ipmi", "aws"}
    /\ action \in (IF backend = "ipmi" THEN IpmiNodeAction \cup {IpmiUnknownAction}
                   ELSE AwsNodeAction \cup {AwsUnknownAction})
    /\ wait \in BOOLEAN
    /\ wait_timeout \in 0..MaxTimeout
    /\ credentials \in BOOLEAN
    /\ pc = "begin"
    /\ now \in 0..MaxStartClock
    /\ start_time = 0
    /\ original_assigned = FALSE
    /\ original_power_state_on = FALSE
    /\ intended_assigned = FALSE
    /\ intended_final_power_state = FALSE
    /\ desired_power_state_on = FALSE
    /\ timeout_time = 0
    /\ final_power_state_on = FALSE
    /\ final_state_name = "none"
    /\ output_id = "none"
    /\ output = NoOutput
    /\ raised = ""
    /\ issued = << >>
    /\ hist = NoHist

\* A backend call takes between 0 and MaxCallTicks ticks.
Elapse(d) == now' = now + d

Return(id, out) ==
    /\ output_id' = id
    /\ output' = out
    /\ raised' = ""
    /\ pc' = "done"

Raise(exc) ==
    /\ raised' = exc
    /\ UNCHANGED << output_id, output >>
    /\ pc' = "done"

OnOff(b) == IF b THEN "on" ELSE "off"

\* What a pyipmi call can raise: the connection error the plugin names, or
\* anything else (a timeout, a completion code).
IpmiErrors == {"IpmiConnectionError", "Exception"}

\* lines 138, 150-151: the try block catches IpmiConnectionError only
InsideTry(exc) ==
    IF exc = "IpmiConnectionError"
    THEN Return("error", ErrorOutput(<< "Failed to connect: ", exc >>))
    ELSE Raise(exc)

\* ------------------------------------------------------------ ipmi_action
is_restart ==
    \/ PyEq(Value(action), Value(Member("reboot")))
    \/ PyEq(action, Value(Member("hard_reset")))

is_diagnostic_interrupt ==
    PyEq(Value(action), Member("diagnostic_interrupt"))

\* lines 134-137
IpmiBegin ==
    /\ backend = "ipmi" /\ pc = "begin"
    /\ start_time' = now
    /\ hist' = [hist EXCEPT !.began = now]
    /\ pc' = "connect"
    /\ UNCHANGED << params, now, locals, outcome, issued >>

\* get_ipmi_connection, called inside the try block
get_ipmi_connection ==
    /\ backend = "ipmi" /\ pc = "connect"
    /\ \E d \in 0..MaxCallTicks : Elapse(d)
    /\ \/ /\ Raise("ValueError")      \* lines 89-94: int() of a port that is not a number
          /\ hist' = [hist EXCEPT !.failed_at = "address", !.exc = "ValueError"]
       \/ /\ ~credentials
          /\ Return("error", ErrorOutput(<< "Missing IPMI BMI user and/or password for baremetal cloud. " >>))
          /\ UNCHANGED hist
       \/ /\ credentials
          /\ \/ /\ pc' = (IF is_restart THEN "sample" ELSE "control")
                /\ UNCHANGED << outcome, hist >>
             \/ \E exc \in IpmiErrors :
                   /\ InsideTry(exc)
                   /\ hist' = [hist EXCEPT !.failed_at = "session", !.exc = exc]
    /\ UNCHANGED << params, start_time, locals, issued >>

\* lines 145-147: original_power_state_on = conn.get_chassis_status().power_on
SampleOriginal ==
    /\ backend = "ipmi" /\ pc = "sample"
    /\ \E d \in 0..MaxCallTicks : Elapse(d)
    /\ \/ \E obs \in BOOLEAN :
            /\ original_assigned' = TRUE
            /\ original_power_state_on' = obs
            /\ hist' = [hist EXCEPT !.pre_queries = @ + 1, !.pre_state = OnOff(obs)]
            /\ pc' = "control"
            /\ UNCHANGED outcome
       \/ \E exc \in IpmiErrors :
             /\ InsideTry(exc)
             /\ hist' = [hist EXCEPT !.failed_at = "pre_query", !.exc = exc]
             /\ UNCHANGED << original_assigned, original_power_state_on >>
    /\ UNCHANGED << params, start_time, intended_assigned,
                    intended_final_power_state, desired_power_state_on,
                    timeout_time, final_power_state_on, final_state_name, issued >>

\* line 149: conn.chassis_control(nodeActionEnumToInt[params.action.value])
ChassisControl ==
    /\ backend = "ipmi" /\ pc = "control"
    /\ IF action.value \notin nodeActionEnumToIntKeys
       THEN \* the subscript raises before chassis_control is called
            /\ InsideTry("KeyError")
            /\ hist' = [hist EXCEPT !.failed_at = "lookup", !.exc = "KeyError"]
            /\ UNCHANGED << now, issued >>
       ELSE /\ \E d \in 0..MaxCallTicks : Elapse(d)
            /\ \/ /\ issued' = Append(issued, [op |-> "chassis_control",
                                             arg |-> nodeActionEnumToInt(action.value)])
                  /\ pc' = "check_wait"
                  /\ UNCHANGED << outcome, hist >>
               \/ \E exc \in IpmiErrors :
                     /\ InsideTry(exc)
                     /\ hist' = [hist EXCEPT !.failed_at = "command", !.exc = exc]
                     /\ UNCHANGED issued
    /\ UNCHANGED << params, start_time, locals >>

\* lines 153-154: if params.wait: if is_restart and original_power_state_on
CheckWait ==
    /\ backend = "ipmi" /\ pc = "check_wait"
    /\ IF ~wait THEN pc' = "final" /\ UNCHANGED raised
       ELSE IF ~is_restart THEN pc' = "phase2" /\ UNCHANGED raised
       ELSE IF ~original_assigned THEN pc' = "done" /\ raised' = "UnboundLocalError"
       ELSE IF original_power_state_on THEN pc' = "phase1" /\ UNCHANGED raised
       ELSE pc' = "phase2" /\ UNCHANGED raised
    /\ UNCHANGED << params, now, start_time, locals, output_id, output, issued, hist >>

\* Binding the arguments of a call of wait_for_power_state (line 113): every
\* parameter is required.
CallBinds(nargs) == nargs = WaitForPowerStateArity

\* lines 155-157: wait_for_power_state(conn, False)
WaitForPowerOff ==
    /\ backend = "ipmi" /\ pc = "phase1"
    /\ ~CallBinds(PhaseOneCallArgs)
    /\ Raise("TypeError")
    /\ UNCHANGED hist
    /\ UNCHANGED << params, now, start_time, locals, issued >>

\* lines 159-162 and 114: the wait for the final state begins
WaitForFinalState ==
    /\ backend = "ipmi" /\ pc = "phase2"
    /\ IF ~is_diagnostic_interrupt
       THEN LET intended == is_restart \/ PyEq(Value(action), Value(Member("start")))
            IN /\ intended_assigned' = TRUE
               /\ intended_final_power_state' = intended
               /\ desired_power_state_on' = intended
               /\ timeout_time' = now + (wait_timeout * TicksPerSecond)
               /\ hist' = [hist EXCEPT !.on_wait_started = intended,
                                        !.off_wait_started = ~intended,
                                        !.off_before_on_wait = intended /\ hist.seen_off]
               /\ pc' = "poll"
       ELSE /\ pc' = "final"
            /\ UNCHANGED << intended_assigned, intended_final_power_state,
                            desired_power_state_on, timeout_time, hist >>
    /\ UNCHANGED << params, now, start_time, original_assigned,
                    original_power_state_on, final_power_state_on,
                    final_state_name, outcome, issued >>

\* A loop condition that never looks at the clock.
LoopCondition_NoDeadline(obs, desired, t, deadline) == ~(obs = desired)

\* A loop condition that goes on while the desired state is seen.
LoopCondition_Inverted(obs, desired, t, deadline) == (obs = desired) /\ t < deadline

\* lines 115-116: one evaluation of the loop condition of wait_for_power_state
LoopCondition(obs, desired, t, deadline) == (~(obs = desired)) /\ t < deadline

PollQuery ==
    /\ backend = "ipmi" /\ pc = "poll"
    /\ \E d \in 0..MaxCallTicks : Elapse(d)
    /\ \/ \E obs \in BOOLEAN :
            /\ IF LoopCondition(obs, desired_power_state_on, now', timeout_time)
               THEN /\ pc' = "sleep"
                    /\ hist' = [hist EXCEPT !.post_queries = @ + 1, !.polls = @ + 1,
                                 !.seen_on = @ \/ obs, !.seen_off = @ \/ ~obs,
                                 !.last_poll = OnOff(obs)]
               ELSE /\ pc' = "final"
                    /\ hist' = [hist EXCEPT !.post_queries = @ + 1, !.polls = @ + 1,
                                 !.seen_on = @ \/ obs, !.seen_off = @ \/ ~obs,
                                 !.last_poll = OnOff(obs),
                                 !.wait_end = IF obs = desired_power_state_on
                                              THEN "reached" ELSE "deadline"]
            /\ UNCHANGED outcome
       \/ \E exc \in IpmiErrors :
            /\ Raise(exc)
            /\ hist' = [hist EXCEPT !.failed_at = "poll", !.exc = exc]
    /\ UNCHANGED << params, start_time, locals, issued >>

\* line 117: time.sleep(0.5)
PollSleep ==
    /\ backend = "ipmi" /\ pc = "sleep"
    /\ now + SleepTicks <= MaxClock
    /\ now' = now + SleepTicks
    /\ hist' = [hist EXCEPT !.sleeps = @ + 1, !.slept = @ + SleepTicks]
    /\ pc' = "poll"
    /\ UNCHANGED << params, start_time, locals, outcome, issued >>

\* line 163: final_power_state_on = conn.get_chassis_status().power_on
FinalQuery ==
    /\ backend = "ipmi" /\ pc = "final"
    /\ \E d \in 0..MaxCallTicks : Elapse(d)
    /\ \/ \E obs \in BOOLEAN :
            /\ final_power_state_on' = obs
            /\ hist' = [hist EXCEPT !.post_queries = @ + 1, !.final_obs = OnOff(obs),
                         !.seen_on = @ \/ obs, !.seen_off = @ \/ ~obs]
            /\ pc' = "report"
            /\ UNCHANGED outcome
       \/ \E exc \in IpmiErrors :
            /\ Raise(exc)
            /\ hist' = [hist EXCEPT !.failed_at = "final_query", !.exc = exc]
            /\ UNCHANGED final_power_state_on
    /\ UNCHANGED << params, start_time, original_assigned, original_power_state_on,
                    intended_assigned, intended_final_power_state,
                    desired_power_state_on, timeout_time, final_state_name, issued >>

\* A duration with the operands of the subtraction exchanged.
ms_duration_Reversed == MsPerTick * (start_time - now)

\* ms_duration = int(1000 * (time.time() - start_time))
ms_duration == MsPerTick * (now - start_time)

\* A success condition that compares the states before it tests params.wait.
IpmiReadsIntended_Always(di, w) == ~di

\* line 166: the success condition; 'or' reads intended_final_power_state
\* only when the operands before it are false
IpmiReadsIntended(di, w) == ~(di \/ ~w)

\* A success condition that compares the states even when not waiting.
IpmiSuccessRule_IgnoresWaitFlag(di, w, final, intended) == di \/ final = intended

\* A success condition that trusts the way the poll loop ended.
IpmiSuccessRule_ByWaitEnd(di, w, final, intended) ==
    di \/ ~w \/ hist.wait_end = "reached"

IpmiSuccessRule(di, w, final, intended) == di \/ ~w \/ final = intended

\* lines 165-169
IpmiReport ==
    /\ backend = "ipmi" /\ pc = "report"
    /\ IF IpmiReadsIntended(is_diagnostic_interrupt, wait) /\ ~intended_assigned
       THEN Raise("UnboundLocalError")
       ELSE IF IpmiSuccessRule(is_diagnostic_interrupt, wait, final_power_state_on,
                               intended_final_power_state)
       THEN Return("success", SuccessOutput(ms_duration, final_power_state_on))
       ELSE Return("error", ErrorOutput(<< "Did not reach desired final state within timeout period" >>))
    /\ UNCHANGED << params, now, start_time, locals, issued, hist >>

ipmi_action ==
    \/ IpmiBegin \/ get_ipmi_connection \/ SampleOriginal \/ ChassisControl
    \/ CheckWait \/ WaitForPowerOff \/ WaitForFinalState
    \/ PollQuery \/ PollSleep \/ FinalQuery \/ IpmiReport

\* ------------------------------------------------------------- aws_action
\* resource.state['Name']: the names the plugin tests for, and "pending" for
\* every other name EC2 reports.
Ec2StateNames == {"running", "stopped", "terminated", "pending"}

\* What a boto3 client or resource call can raise (nothing catches it).
Boto3Errors == {"ClientError", "EndpointConnectionError"}

ActionIs(name) == PyEq(Value(action), Value(Member(name)))

\* lines 109-111
AwsBegin ==
    /\ backend = "aws" /\ pc = "begin"
    /\ start_time' = now
    /\ hist' = [hist EXCEPT !.began = now]
    /\ pc' = (IF ActionIs("reboot") THEN "precheck" ELSE "dispatch")
    /\ UNCHANGED << params, now, locals, outcome, issued >>

\* A precondition that forgets the terminated state.
RebootRefused_StoppedOnly(name) == name = "stopped"

\* line 112: the states in which a reboot is refused
RebootRefused(name) == name = "stopped" \/ name = "terminated"

\* lines 111-113: the precondition of reboot
AwsPrecheck ==
    /\ backend = "aws" /\ pc = "precheck"
    /\ \E d \in 0..MaxCallTicks : Elapse(d)
    /\ \/ \E name \in Ec2StateNames :
            /\ hist' = [hist EXCEPT !.pre_queries = @ + 1, !.pre_state = name]
            /\ IF RebootRefused(name)
               THEN Return("error", ErrorOutput(<< "Node must be running to reboot." >>))
               ELSE pc' = "dispatch" /\ UNCHANGED outcome
       \/ \E exc \in Boto3Errors :
            /\ Raise(exc)
            /\ hist' = [hist EXCEPT !.failed_at = "pre_query", !.exc = exc]
    /\ UNCHANGED << params, start_time, locals, issued >>

\* A dispatch whose force_stop loses its Force flag.
AwsCommand_ForceLost ==
    IF ActionIs("start") THEN [op |-> "start_instances", arg |-> 0]
    ELSE IF ActionIs("stop") \/ ActionIs("force_stop") THEN [op |-> "stop_instances", arg |-> 0]
    ELSE IF ActionIs("reboot") THEN [op |-> "reboot_instances", arg |-> 0]
    ELSE IF ActionIs("terminate") THEN [op |-> "terminate_instances", arg |-> 0]
    ELSE [op |-> "none", arg |-> 0]

\* lines 115-126: the client call of the action, "none" for the else branch
AwsCommand ==
    IF ActionIs("start") THEN [op |-> "start_instances", arg |-> 0]
    ELSE IF ActionIs("stop") THEN [op |-> "stop_instances", arg |-> 0]
    ELSE IF ActionIs("force_stop") THEN [op |-> "stop_instances", arg |-> 1]
    ELSE IF ActionIs("reboot") THEN [op |-> "reboot_instances", arg |-> 0]
    ELSE IF ActionIs("terminate") THEN [op |-> "terminate_instances", arg |-> 0]
    ELSE [op |-> "none", arg |-> 0]

\* lines 115-130: dispatch; then intended_final_power_state and if params.wait
AwsDispatch ==
    /\ backend = "aws" /\ pc = "dispatch"
    /\ IF AwsCommand.op = "none"
       THEN /\ Return("error", ErrorOutput(<< "Unknown action ", action.value >>))
            /\ UNCHANGED << now, issued, hist, intended_assigned,
                            intended_final_power_state >>
       ELSE /\ \E d \in 0..MaxCallTicks : Elapse(d)
            /\ \/ /\ issued' = Append(issued, AwsCommand)
                  /\ intended_assigned' = TRUE
                  /\ intended_final_power_state' = (ActionIs("reboot") \/ ActionIs("start"))
                  /\ pc' = (IF wait THEN "waiter" ELSE "reload")
                  /\ UNCHANGED << outcome, hist >>
               \/ \E exc \in Boto3Errors :
                    /\ Raise(exc)
                    /\ hist' = [hist EXCEPT !.failed_at = "command", !.exc = exc]
                    /\ UNCHANGED << issued, intended_assigned,
                                    intended_final_power_state >>
    /\ UNCHANGED << params, start_time, original_assigned, original_power_state_on,
                    desired_power_state_on, timeout_time, final_power_state_on,
                    final_state_name >>

\* A terminal wait that is handed the caller's timeout like the others.
WaiterTimeoutArg_Always(terminal, timeout) == timeout

\* lines 133-138: the timeout argument of the waiter call
WaiterTimeoutArg(terminal, timeout) == IF terminal THEN NoTimeout ELSE timeout

\* lines 86-90 and 131-140: the blocking wait of the backend.  It returns
\* when it has seen its target state, or raises.
AwsWait ==
    /\ backend = "aws" /\ pc = "waiter"
    /\ \E d \in 0..MaxWaiterTicks : Elapse(d)
    /\ LET terminal == ActionIs("terminate")
           arg == WaiterTimeoutArg(terminal, wait_timeout)
           target == IF terminal THEN "wait_until_terminated"
                     ELSE IF intended_final_power_state THEN "wait_until_running"
                     ELSE "wait_until_stopped"
       IN \/ /\ pc' = "reload"
             /\ hist' = [hist EXCEPT !.seen_on = @ \/ (target = "wait_until_running"),
                                      !.seen_off = @ \/ (target # "wait_until_running"),
                                      !.on_wait_started = (target = "wait_until_running"),
                                      !.off_wait_started = (target # "wait_until_running"),
                                      !.off_before_on_wait = (target = "wait_until_running") /\ hist.seen_off,
                                      !.wait_end = "reached", !.last_poll = target,
                                      !.waiter_timeout = arg, !.waited = now' - now]
             /\ UNCHANGED outcome
          \/ /\ Return("error", ErrorOutput(<< "Failed due to timeout while waiting for final state." >>))
             /\ hist' = [hist EXCEPT !.on_wait_started = (target = "wait_until_running"),
                                      !.off_wait_started = (target # "wait_until_running"),
                                      !.off_before_on_wait = (target = "wait_until_running") /\ hist.seen_off,
                                      !.wait_end = "WaiterError", !.exc = "WaiterError",
                                      !.waiter_timeout = arg, !.waited = now' - now]
          \/ \E exc \in Boto3Errors :
                /\ Raise(exc)
                /\ hist' = [hist EXCEPT !.failed_at = "poll", !.exc = exc,
                                         !.waiter_timeout = arg]
    /\ UNCHANGED << params, start_time, locals, issued >>

\* lines 142-143: resource.reload(); final_power_state_on
AwsReload ==
    /\ backend = "aws" /\ pc = "reload"
    /\ \E d \in 0..MaxCallTicks : Elapse(d)
    /\ \/ \E name \in Ec2StateNames :
            /\ final_state_name' = name
            /\ final_power_state_on' = (name = "running")
            /\ hist' = [hist EXCEPT !.post_queries = @ + 1, !.final_obs = name,
                         !.seen_on = @ \/ (name = "running"),
                         !.seen_off = @ \/ (name # "running")]
            /\ pc' = "report"
            /\ UNCHANGED outcome
       \/ \E exc \in Boto3Errors :
            /\ Raise(exc)
            /\ hist' = [hist EXCEPT !.failed_at = "final_query", !.exc = exc]
            /\ UNCHANGED << final_state_name, final_power_state_on >>
    /\ UNCHANGED << params, start_time, original_assigned, original_power_state_on,
                    intended_assigned, intended_final_power_state,
                    desired_power_state_on, timeout_time, issued >>

\* line 147
AwsSuccessRule(w, final, intended) == ~w \/ final = intended

\* lines 145-151
AwsReport ==
    /\ backend = "aws" /\ pc = "report"
    /\ IF AwsSuccessRule(wait, final_power_state_on, intended_final_power_state)
       THEN Return("success", SuccessOutput(ms_duration, final_power_state_on))
       ELSE Return("error", ErrorOutput(<< "Did not reach desired final state within timeout period. Power state is ",
                                           final_state_name >>))
    /\ UNCHANGED << params, now, start_time, locals, issued, hist >>

aws_action ==
    \/ AwsBegin \/ AwsPrecheck \/ AwsDispatch \/ AwsWait \/ AwsReload \/ AwsReport

Next == ipmi_action \/ aws_action

Spec == Init /\ [][Next]_vars

\* Every step of the call completes: a backend call returns or raises, a
\* sleep ends, straight-line code runs on.
FairSpec == Spec /\ WF_vars(Next)

\* ---------------------------------------------------------------- properties
Done == pc = "done"
Dispatched == Len(issued) > 0
ObservedOn(o) == o \in {"on", "running", "wait_until_running"}

\* The intended final power state the claims give to an action.
ClaimedIntendedOn == action.value \in {"start", "reboot", "hard_reset"}
HasClaimedFinalState == action.value # "diagnostic_interrupt"

\* C1: with wait=false, whenever the call ends and the post-dispatch state
\* query returned a state, the result is Success exactly when the backend
\* accepted the one dispatched command, whatever state was observed, and the
\* Success reports the state that the single post-dispatch query returned.
C1_NoWaitSuccessIffDispatched ==
    (Done /\ ~wait /\ hist.failed_at # "final_query") =>
        /\ (output_id = "success") <=> (Len(issued) = 1)
        /\ (output_id = "success") =>
              /\ output.kind = "SuccessOutput"
              /\ hist.post_queries = 1
              /\ hist.polls = 0
              /\ output.final_power_state_on = ObservedOn(hist.final_obs)

\* C1 witness: a Start without wait succeeded although the node was observed off.
C1_Witness ==
    /\ Done /\ ~wait /\ action.value = "start"
    /\ output_id = "success" /\ hist.final_obs \in {"off", "stopped"}
    /\ output.final_power_state_on = FALSE

C3_DiagnosticInterruptNeverWaits ==
    (action.value = "diagnostic_interrupt" /\ wait /\ Dispatched) =>
        /\ hist.polls = 0
        /\ ~hist.on_wait_started /\ ~hist.off_wait_started
        /\ (Done /\ hist.failed_at = "none") => output_id = "success"

\* C4: a Success with wait=true for an action other than DiagnosticInterrupt
\* reports the action's intended final power state: on for Start, Reboot and
\* HardReset, off for the others.
C4_WaitSuccessReportsIntended ==
    (Done /\ wait /\ output_id = "success" /\ HasClaimedFinalState) =>
        output.final_power_state_on = ClaimedIntendedOn

\* C5: for a Reboot or HardReset with wait=true on a node observed on (running)
\* before the command, the wait for power-off is performed, and the wait for
\* power-on begins, and Success is returned, only after an off observation
\* made after the command.
C5_RestartTwoPhase ==
    (action.value \in {"reboot", "hard_reset"} /\ wait /\ Dispatched
        /\ hist.pre_state \in {"on", "running"}) =>
        /\ raised # "TypeError"
        /\ hist.on_wait_started => hist.off_before_on_wait
        /\ (output_id = "success") => hist.off_before_on_wait

\* C6: a dispatched Reboot with wait=true on a node observed on, with no
\* backend call failing, ends in Success or in an Error, never otherwise.
C6_RebootEndsTyped ==
    (Done /\ action.value = "reboot" /\ wait /\ Dispatched
        /\ hist.pre_state \in {"on", "running"} /\ hist.failed_at = "none") =>
        /\ raised = ""
        /\ output_id \in {"success", "error"}

\* C7: every call that ends has returned exactly one typed result and raised
\* nothing; the tag matches the payload variant.
C7_AlwaysTypedResult ==
    Done =>
        /\ raised = ""
        /\ \/ output_id = "success" /\ output.kind = "SuccessOutput"
           \/ output_id = "error" /\ output.kind = "ErrorOutput"

\* C8: a connection or authorization failure while the session is opened or
\* the command is issued ends the call in an Error whose message starts with
\* "Failed to connect: "; nothing was polled, waited for or queried after it
\* and no command was issued.
C8_ConnectionFailureIsError ==
    (hist.failed_at \in {"session", "command"}
        /\ hist.exc \in {"IpmiConnectionError", "ClientError", "EndpointConnectionError"}) =>
        /\ Done
        /\ raised = ""
        /\ output_id = "error"
        /\ Len(output.error) > 0 /\ Head(output.error) = "Failed to connect: "
        /\ hist.post_queries = 0 /\ hist.polls = 0 /\ hist.sleeps = 0
        /\ issued = << >>

\* The actions whose wait is the poll loop of wait_for_power_state and that
\* are not restart-type.
PollLoopCase ==
    backend = "ipmi" /\ wait /\ action.value \in {"start", "stop", "soft_stop"}

\* No state query made after the command returned the intended state.
NeverReached == IF ClaimedIntendedOn THEN ~hist.seen_on ELSE ~hist.seen_off

C9_Bounded ==
    PollLoopCase =>
        /\ (pc = "sleep") => now < timeout_time
        /\ (pc = "poll") => now < timeout_time + SleepTicks
        /\ (hist.sleeps > 0) =>
              (hist.sleeps - 1) * SleepTicks < wait_timeout * TicksPerSecond
        /\ (Done /\ hist.polls > 0 /\ hist.failed_at = "none" /\ NeverReached) =>
              /\ output_id = "error"
              /\ output.error = << "Did not reach desired final state within timeout period" >>

\* C9: for Start, Stop and SoftStop with wait=true in the polling backend, a
\* sleep begins only before the deadline now + wait_timeout, so the number of
\* sleeps is bounded by the timeout; the poll loop is always left and the call
\* ends; and when no query after the command returned the intended state the
\* result is the Error "Did not reach desired final state within timeout
\* period", never Success.
C9_WaitBoundedByTimeout ==
    /\ []C9_Bounded
    /\ [](PollLoopCase /\ pc \in {"poll", "sleep"} => <>Done)

\* C9 witness: a waiting Stop slept at least twice, ran past its deadline
\* without ever seeing the node off, and ended in the Error.
C9_Witness ==
    /\ PollLoopCase /\ action.value = "stop" /\ wait_timeout > 0
    /\ hist.sleeps >= 2 /\ NeverReached /\ now >= timeout_time
    /\ Done /\ output_id = "error"

\* C10: a call with wait=true whose wait last saw the action's intended final
\* state, and whose final query saw it too, ends in Success reporting that
\* state.
C10_ReachedIntendedSucceeds ==
    (Done /\ wait /\ Dispatched /\ HasClaimedFinalState
        /\ hist.failed_at = "none" /\ raised = ""
        /\ hist.last_poll # "none" /\ ObservedOn(hist.last_poll) = ClaimedIntendedOn
        /\ hist.final_obs # "none" /\ ObservedOn(hist.final_obs) = ClaimedIntendedOn) =>
        /\ output_id = "success"
        /\ output.final_power_state_on = ClaimedIntendedOn

\* C11: a waiting Terminate calls the terminal wait without any timeout: the
\* call never carries wait_timeout, the wait may last longer than wait_timeout,
\* a Success of it reports final_power_state_on = false, and when the wait
\* returned and the final query saw the terminated state the result is that
\* Success.
C11_TerminateIgnoresTimeout ==
    (backend = "aws" /\ action.value = "terminate" /\ wait) =>
        /\ hist.waiter_timeout = NoTimeout
        /\ hist.last_poll \in {"none", "wait_until_terminated"}
        /\ (Done /\ output_id = "success") => output.final_power_state_on = FALSE
        /\ (Done /\ hist.wait_end = "reached" /\ hist.final_obs = "terminated") =>
              /\ output_id = "success"
              /\ output.kind = "SuccessOutput"
              /\ output.final_power_state_on = FALSE

\* C11 witness: a Terminate with wait_timeout = 0 waited three ticks for the
\* terminated state and succeeded.
C11_Witness ==
    /\ backend = "aws" /\ action.value = "terminate" /\ wait /\ wait_timeout = 0
    /\ hist.wait_end = "reached" /\ hist.waited > wait_timeout * TicksPerSecond
    /\ hist.final_obs = "terminated"
    /\ Done /\ output_id = "success" /\ output.final_power_state_on = FALSE

Unsupported ==
    \/ backend = "ipmi" /\ action \notin IpmiNodeAction
    \/ backend = "aws" /\ action \notin AwsNodeAction

\* C12: a call with an action outside the backend's action set issues no
\* backend command and, when no backend call failed and the credentials are
\* present, ends in an Error result.
C12_UnsupportedActionIsError ==
    Unsupported =>
        /\ issued = << >>
        /\ (Done /\ hist.failed_at \in {"none", "lookup"}
                 /\ (backend = "ipmi" => credentials)) =>
              /\ raised = ""
              /\ output_id = "error"
              /\ output.kind = "ErrorOutput"

\* The backend operation that corresponds to the requested action: the IPMI
\* chassis control code (0 power down, 1 power up, 2 power cycle, 3 hard
\* reset, 4 diagnostic interrupt, 5 soft shutdown) or the EC2 client call
\* (arg 1 is Force=True).
CorrespondingCommand ==
    IF backend = "ipmi"
    THEN [op |-> "chassis_control",
          arg |-> CASE action.value = "stop" -> 0
                    [] action.value = "start" -> 1
                    [] action.value = "reboot" -> 2
                    [] action.value = "hard_reset" -> 3
                    [] action.value = "diagnostic_interrupt" -> 4
                    [] action.value = "soft_stop" -> 5
                    [] OTHER -> -1]
    ELSE CASE action.value = "start" -> [op |-> "start_instances", arg |-> 0]
           [] action.value = "stop" -> [op |-> "stop_instances", arg |-> 0]
           [] action.value = "force_stop" -> [op |-> "stop_instances", arg |-> 1]
           [] action.value = "reboot" -> [op |-> "reboot_instances", arg |-> 0]
           [] action.value = "terminate" -> [op |-> "terminate_instances", arg |-> 0]
           [] OTHER -> [op |-> "none", arg |-> 0]

Reconciling ==
    \/ pc \in {"check_wait", "phase1", "phase2", "poll", "sleep", "final",
                "report", "waiter", "reload"}
    \/ hist.post_queries > 0
    \/ hist.wait_end # "none"

\* C13: at most one backend command is ever issued in a call, and in every
\* call that has gone on to the wait or the final query, or that returned
\* Success, exactly one was issued: the operation of the requested action.
C13_ExactlyOneCommand ==
    /\ Len(issued) <= 1
    /\ (Reconciling \/ (Done /\ output_id = "success")) =>
          issued = << CorrespondingCommand >>

\* C13 witness: a waiting ForceStop succeeded after the one forced stop call.
C13_Witness ==
    /\ backend = "aws" /\ action.value = "force_stop" /\ wait
    /\ hist.wait_end = "reached"
    /\ Done /\ output_id = "success"
    /\ issued = << [op |-> "stop_instances", arg |-> 1] >>

\* C14: the duration of a Success is not negative, is the clock difference
\* between the beginning of the call and its end after the final state query,
\* and is at least the time spent sleeping or blocked in the wait; the clock
\* never runs backwards.
C14_DurationCoversCall ==
    /\ start_time <= now
    /\ (Done /\ output_id = "success") =>
          /\ output.ms_duration >= 0
          /\ output.ms_duration = MsPerTick * (now - hist.began)
          /\ output.ms_duration >= MsPerTick * (hist.slept + hist.waited)
          /\ hist.post_queries >= 1

\* C14 witness: a call that began at a clock reading above zero, slept twice
\* while polling and returned Success with a duration of at least a second.
C14_Witness ==
    /\ backend = "ipmi" /\ wait /\ hist.began > 0
    /\ hist.sleeps >= 2
    /\ Done /\ output_id = "success"
    /\ output.ms_duration >= 2 * MsPerTick

\* C15: for a Reboot or HardReset of the polling backend issued on a node
\* that was off (observed off before the command, or not observed on), no
\* wait for power-off is made: with wait=true the one wait is for power-on,
\* with its deadline wait_timeout ahead, and with wait=false nothing is
\* waited for.
C15_RestartOffSkipsPhaseOne ==
    (backend = "ipmi" /\ action.value \in {"reboot", "hard_reset"}
        /\ Dispatched /\ hist.pre_state # "on") =>
        /\ pc # "phase1"
        /\ ~hist.off_wait_started
        /\ (pc \in {"poll", "sleep"}) =>
              /\ wait
              /\ desired_power_state_on = TRUE
              /\ hist.on_wait_started
              /\ timeout_time <= now + (wait_timeout * TicksPerSecond)
        /\ (~wait) => (hist.polls = 0 /\ ~hist.on_wait_started)

\* C16: in the poll loop every decision is taken on a query made after the
\* latest sleep (queries = sleeps + 1 whenever the loop sleeps or ends, and
\* no query is pending when it is about to query), the loop queries at least
\* once, it sleeps only after a query that did not return the desired state,
\* and after the loop the report is made on one further query.
C16_FreshQueries ==
    backend = "ipmi" =>
        /\ (pc = "sleep") =>
              /\ hist.polls = hist.sleeps + 1
              /\ hist.last_poll = OnOff(~desired_power_state_on)
        /\ (pc = "poll") => hist.polls = hist.sleeps
        /\ (hist.wait_end # "none") =>
              /\ hist.polls >= 1
              /\ hist.polls = hist.sleeps + 1
              /\ (hist.wait_end = "reached") =>
                    hist.last_poll = OnOff(desired_power_state_on)
        /\ (hist.wait_end # "none" /\ (pc = "report" \/ (Done /\ output_id # "none"))) =>
              /\ hist.post_queries = hist.polls + 1
              /\ hist.final_obs = OnOff(final_power_state_on)

\* C16 witness: with a zero timeout the loop queried once, did not sleep, and
\* the report was made on a second query that returned another state.
C16_Witness ==
    /\ backend = "ipmi" /\ wait /\ wait_timeout = 0
    /\ hist.polls = 1 /\ hist.sleeps = 0 /\ hist.post_queries = 2
    /\ hist.last_poll = "off" /\ hist.final_obs = "on"
    /\ Done /\ output_id # "none"

\* C17: no call of ipmi_action ends in UnboundLocalError: the original power
\* state is read (and the power-off phase entered) only when it was sampled,
\* and the success rule reads the intended final state only when the wait
\* branch assigned it, for every action and both values of wait.
C17_NoUnassignedRead ==
    /\ raised # "UnboundLocalError"
    /\ (backend = "ipmi") =>
          /\ (pc = "check_wait" /\ wait /\ action.value = "reboot") => original_assigned
          /\ (pc = "phase1") => (original_assigned /\ hist.pre_queries = 1)
          /\ (pc = "report" /\ wait) => intended_assigned
          /\ (~wait) => ~intended_assigned

\* C17 witness: a Reboot without wait sampled the original state, never
\* assigned the intended state and returned Success.
C17_Witness ==
    /\ backend = "ipmi" /\ action.value = "reboot" /\ ~wait
    /\ original_assigned /\ ~intended_assigned
    /\ Done /\ output_id = "success"

\* C18: in ipmi_action with wait=true, once the poll loop has ended and the
\* final query returned, the result is Success exactly when that query
\* returned the state the wait was for and Error otherwise, whether the loop
\* ended on the deadline or on seeing that state.
C18_FinalQueryDecides ==
    (backend = "ipmi" /\ Done /\ wait /\ hist.wait_end # "none"
        /\ hist.failed_at = "none") =>
        /\ raised = ""
        /\ output_id \in {"success", "error"}
        /\ (output_id = "success") <=>
              (hist.final_obs = OnOff(intended_final_power_state))

\* C18 witness: a Start whose poll loop ended on the deadline, still seeing
\* the node off, returned Success because the final query saw it on.
C18_Witness ==
    /\ backend = "ipmi" /\ action.value = "start" /\ wait
    /\ hist.wait_end = "deadline" /\ hist.last_poll = "off"
    /\ hist.final_obs = "on"
    /\ Done /\ output_id = "success"

\* The other half of C18: the loop ended on seeing the node on, and the
\* final query saw it off: Error.
C18_ReachedThenError ==
    /\ backend = "ipmi" /\ action.value = "start" /\ wait
    /\ hist.wait_end = "reached" /\ hist.final_obs = "off"
    /\ Done /\ output_id = "error"

====
